---------------------------- MODULE Spec2Model ----------------------------
(***************************************************************************)
(* A model of datadrivenpdes/advection/velocity_fields.py: the constant,   *)
(* sum-of-sinusoids velocity field (ConstantVelocityField), its point      *)
(* evaluation, its exact face average, its normalisation and its random    *)
(* factory.                                                                *)
(*                                                                         *)
(* Numbers.  The program computes in float64.  The model computes exactly  *)
(* in the set of reals of the form  (n/d) * sqrt(r) * pi^p  (n, d, r, p    *)
(* integers, d > 0, r squarefree), extended with the IEEE values +inf,     *)
(* -inf and NaN that numpy produces for x/0, 0*inf and inf-inf.  A finite  *)
(* real outside that set (a sum of two unlike terms) is the value Mix.     *)
(* Rounding and overflow of float64 are outside the model.                 *)
(*                                                                         *)
(* Angles.  sin and cos are exact at the multiples of pi/2.  Grids have 1  *)
(* or 2 cells per axis and phase shifts are multiples of pi/2, so that     *)
(* every angle the program forms is such a multiple.                       *)
(***************************************************************************)
EXTENDS Integers, Sequences, FiniteSets, TLC

(***************************************************************************)
(* Bounds of the model.                                                    *)
(***************************************************************************)
MaxWavenumber == 1
MaxAmp == 1
MaxPhase == 1
MaxTime == 1
MaxSeedPeriods == 1
MaxSeed == 1
MaxDim == 2

(***************************************************************************)
(* State.                                                                  *)
(*   self       the attributes of the field the calls are made on          *)
(*   call       the call in progress (op = "idle" when there is none)      *)
(*   ret        what the call returned                                     *)
(*   divisions  the quotients 1 / (grid_step * k) the call evaluated       *)
(*   prev       an earlier call and its result, kept to compare with       *)
(*   np_random  the state of numpy's process-wide generator                *)
(***************************************************************************)
VARIABLES self, call, ret, divisions, prev, np_random

vars == <<self, call, ret, divisions, prev, np_random>>

(***************************************************************************)
(* Exact arithmetic with IEEE special values.                              *)
(***************************************************************************)
Abs(i) == IF i < 0 THEN -i ELSE i

Sign(i) == IF i < 0 THEN -1 ELSE IF i = 0 THEN 0 ELSE 1

RECURSIVE Gcd(_, _)
Gcd(a, b) == IF b = 0 THEN a ELSE Gcd(b, a % b)

\* The largest s with s*s dividing r (r >= 1).
RECURSIVE SqPartFrom(_, _)
SqPartFrom(r, s) ==
    IF s * s > r THEN 1
    ELSE IF r % (s * s) = 0 THEN s * SqPartFrom(r \div (s * s), s)
    ELSE SqPartFrom(r, s + 1)

SqPart(r) == IF r < 4 THEN 1 ELSE SqPartFrom(r, 2)

\* The numbers of the model.  The arithmetic below is written as functions
\* on Numbers, so that an argument is evaluated once, before it is applied.
Numbers == [k : {"fin", "inf", "nan", "mix"}, n : Int, d : Nat, r : Nat, p : Int]

NaN == [k |-> "nan", n |-> 0, d |-> 1, r |-> 1, p |-> 0]

Mix == [k |-> "mix", n |-> 0, d |-> 1, r |-> 1, p |-> 0]

Inf(s) == [k |-> "inf", n |-> s, d |-> 1, r |-> 1, p |-> 0]

Zero == [k |-> "fin", n |-> 0, d |-> 1, r |-> 1, p |-> 0]

\* (n/d) * sqrt(r) * pi^p in normal form; d # 0, r >= 1.
Fin(n, d, r, p) ==
    IF n = 0 THEN Zero
    ELSE LET s  == SqPart(r)
             n1 == n * s * Sign(d)
             d1 == Abs(d)
             g  == Gcd(Abs(n1), d1)
         IN  [k |-> "fin", n |-> n1 \div g, d |-> d1 \div g,
              r |-> r \div (s * s), p |-> p]

Num(i) == Fin(i, 1, 1, 0)

Rat(n, d) == Fin(n, d, 1, 0)

One == Num(1)

Pi == Fin(1, 1, 1, 1)

IsFinite(a) == a.k \in {"fin", "mix"}

IsZero(a) == a.k = "fin" /\ a.n = 0

Neg[a \in Numbers] ==
    CASE a.k = "fin" -> [a EXCEPT !.n = -a.n]
      [] a.k = "inf" -> Inf(-a.n)
      [] OTHER -> a

Mul[a \in Numbers, b \in Numbers] ==
    CASE a.k = "nan" \/ b.k = "nan" -> NaN
      [] a.k = "inf" /\ b.k = "inf" -> Inf(a.n * b.n)
      [] a.k = "inf" /\ b.k = "fin" -> IF b.n = 0 THEN NaN ELSE Inf(a.n * Sign(b.n))
      [] a.k = "fin" /\ b.k = "inf" -> IF a.n = 0 THEN NaN ELSE Inf(b.n * Sign(a.n))
      [] a.k = "fin" /\ b.k = "fin" ->
            Fin(a.n * b.n * (IF a.r = b.r THEN a.r ELSE 1), a.d * b.d,
                IF a.r = b.r THEN 1 ELSE a.r * b.r, a.p + b.p)
      [] a.k = "fin" /\ a.n = 0 /\ b.k = "mix" -> Zero
      [] b.k = "fin" /\ b.n = 0 /\ a.k = "mix" -> Zero
      [] OTHER -> Mix

\* 1/a, with 1/0 = inf as numpy computes it under the ignored warning.
Inv[a \in Numbers] ==
    CASE a.k = "nan" -> NaN
      [] a.k = "inf" -> Zero
      [] a.k = "fin" /\ a.n = 0 -> Inf(1)
      [] a.k = "fin" /\ a.n # 0 -> Fin(a.d, a.n * a.r, a.r, -a.p)
      [] OTHER -> Mix

\* a/b, with x/0 = +-inf and 0/0 = NaN.
Div[a \in Numbers, b \in Numbers] ==
    IF b.k = "fin" /\ b.n = 0
    THEN (CASE a.k = "fin" /\ a.n = 0 -> NaN
            [] a.k = "fin" /\ a.n # 0 -> Inf(Sign(a.n))
            [] a.k = "inf" -> a
            [] a.k = "mix" -> Mix
            [] OTHER -> NaN)
    ELSE IF a.k = "inf" /\ b.k = "inf" THEN NaN
    ELSE Mul[a, Inv[b]]

Add[a \in Numbers, b \in Numbers] ==
    CASE a.k = "nan" \/ b.k = "nan" -> NaN
      [] a.k = "inf" /\ b.k = "inf" -> IF a.n = b.n THEN a ELSE NaN
      [] a.k = "inf" /\ b.k # "inf" -> a
      [] b.k = "inf" /\ a.k # "inf" -> b
      [] a.k = "fin" /\ b.k = "fin" ->
            IF a.n = 0 THEN b
            ELSE IF b.n = 0 THEN a
            ELSE IF a.r = b.r /\ a.p = b.p
                 THEN Fin(a.n * b.d + b.n * a.d, a.d * b.d, a.r, a.p)
                 ELSE Mix
      [] OTHER -> Mix

Sub[a \in Numbers, b \in Numbers] == Add[a, Neg[b]]

\* sqrt of a rational; sqrt of a negative number is NaN.
Sqrt[a \in Numbers] ==
    CASE a.k = "nan" -> NaN
      [] a.k = "inf" -> IF a.n > 0 THEN a ELSE NaN
      [] a.k = "fin" /\ a.n = 0 -> Zero
      [] a.k = "fin" /\ a.n < 0 -> NaN
      [] a.k = "fin" /\ a.n > 0 /\ a.r = 1 /\ a.p = 0 -> Fin(1, a.d, a.n * a.d, 0)
      [] OTHER -> Mix

\* a < b for finite a and b of the same power of pi.
Less(a, b) ==
    LET sa == Sign(a.n)
        sb == Sign(b.n)
        qa == a.n * a.n * a.r * b.d * b.d
        qb == b.n * b.n * b.r * a.d * a.d
    IN  IF sa # sb THEN sa < sb
        ELSE IF sa >= 0 THEN qa < qb
        ELSE qb < qa

\* max(a, b) as numpy's max reduces: NaN propagates.
Max2[a \in Numbers, b \in Numbers] ==
    CASE a.k = "nan" \/ b.k = "nan" -> NaN
      [] a.k = "mix" \/ b.k = "mix" -> Mix
      [] a.k = "inf" -> IF a.n > 0 THEN a ELSE b
      [] b.k = "inf" -> IF b.n > 0 THEN b ELSE a
      [] OTHER -> IF Less(a, b) THEN b ELSE a

\* The angle a as a number of quarter turns, when it is a multiple of pi/2.
IsQuarterTurns(a) ==
    a.k = "fin" /\ (a.n = 0 \/ (a.p = 1 /\ a.r = 1 /\ a.d \in {1, 2}))

QuarterTurns(a) == ((2 * a.n) \div a.d) % 4

Sin[a \in Numbers] ==
    IF a.k \in {"nan", "inf"} THEN NaN
    ELSE IF ~IsQuarterTurns(a) THEN Mix
    ELSE Num(<<0, 1, 0, -1>>[QuarterTurns(a) + 1])

Cos[a \in Numbers] ==
    IF a.k \in {"nan", "inf"} THEN NaN
    ELSE IF ~IsQuarterTurns(a) THEN Mix
    ELSE Num(<<1, 0, -1, 0>>[QuarterTurns(a) + 1])

(***************************************************************************)
(* numpy arrays: a shape (a tuple of dimensions) and the elements in C     *)
(* order.  Unset is the value of an attribute that was never assigned.     *)
(***************************************************************************)
RECURSIVE Product(_)
Product(shape) == IF shape = <<>> THEN 1 ELSE Head(shape) * Product(Tail(shape))

Array1(data) == [shape |-> <<Len(data)>>, data |-> data]

Unset == [shape |-> <<-1>>, data |-> <<>>]

Size(a) == Product(a.shape)

\* sum(axis=-1): the terms are added from the first to the last.
SumSeq[s \in Seq(Numbers)] ==
    IF s = <<>> THEN Zero ELSE Add[SumSeq[SubSeq(s, 1, Len(s) - 1)], s[Len(s)]]

\* max() of a non-empty array
MaxSeq[s \in Seq(Numbers)] ==
    IF Len(s) = 1 THEN s[1] ELSE Max2[MaxSeq[SubSeq(s, 1, Len(s) - 1)], s[Len(s)]]

(***************************************************************************)
(* grids.Grid: size_x by size_y cells of side step.                        *)
(***************************************************************************)
Grid(size_x, size_y, step) == [size_x |-> size_x, size_y |-> size_y, step |-> step]

length_x(grid) == Mul[Num(grid.size_x), grid.step]

length_y(grid) == Mul[Num(grid.size_y), grid.step]

Cells(grid) == (0 .. grid.size_x - 1) \X (0 .. grid.size_y - 1)

\* The cells in C order, as numpy flattens an array of shape [size_x, size_y].
CellSeq(grid) ==
    [i \in 1 .. grid.size_x * grid.size_y |->
        <<(i - 1) \div grid.size_y, (i - 1) % grid.size_y>>]

\* Cell centres, moved by shift half-steps along each axis.
get_mesh(grid, shift) ==
    LET half_step == Div[grid.step, Num(2)]
    IN  [x |-> [c \in Cells(grid) |->
                  Add[Mul[grid.step, Num(c[1])], Mul[half_step, Num(1 + shift[1])]]],
         y |-> [c \in Cells(grid) |->
                  Add[Mul[grid.step, Num(c[2])], Mul[half_step, Num(1 + shift[2])]]]]

(***************************************************************************)
(* ConstantVelocityField                                                   *)
(***************************************************************************)
X == "X"

Y == "Y"

VelocityComponent == {X, Y}

Terms(self_) == 1 .. Len(self_.amplitudes.data)

num_terms(self_) == Size(self_.amplitudes)

\* max() of a non-empty array of integers
MaxInt(s) == CHOOSE m \in {s[i] : i \in 1 .. Len(s)} : \A i \in 1 .. Len(s) : s[i] <= m

max_periods(self_) ==
    LET ax == [t \in Terms(self_) |-> Abs(self_.x_wavenumbers.data[t])]
        ay == [t \in Terms(self_) |-> Abs(self_.y_wavenumbers.data[t])]
    IN  MaxInt(<<MaxInt(ax), MaxInt(ay)>>)

\* k = 2 * pi * wavenumber / length
AngularWavenumber(w, length) == Div[Mul[Mul[Num(2), Pi], Num(w)], length]

\* A variant with the wavenumbers of the two components exchanged.
Scale_Swapped(self_, component, t) ==
    IF component = X THEN self_.x_wavenumbers.data[t]
    ELSE -self_.y_wavenumbers.data[t]

\* scale = y_wavenumbers if calculate_vx else -x_wavenumbers
Scale(self_, component, t) ==
    IF component = X THEN self_.y_wavenumbers.data[t]
    ELSE -self_.x_wavenumbers.data[t]

\* k_x = 2 * np.pi * self.x_wavenumbers / grid.length_x, for term t
k_x(self_, grid, t) == AngularWavenumber(self_.x_wavenumbers.data[t], length_x(grid))

\* k_y = 2 * np.pi * self.y_wavenumbers / grid.length_y, for term t
k_y(self_, grid, t) == AngularWavenumber(self_.y_wavenumbers.data[t], length_y(grid))

\* (scale * self.amplitudes * np.sin(phase))[c, t]
EvaluateTerm(self_, component, grid, shift, c, t) ==
    LET mesh  == get_mesh(grid, shift)
        phase == Add[Add[Mul[k_x(self_, grid, t), mesh.x[c]],
                         Mul[k_y(self_, grid, t), mesh.y[c]]],
                     self_.phase_shifts.data[t]]
    IN  Mul[Mul[Num(Scale(self_, component, t)), self_.amplitudes.data[t]], Sin[phase]]

evaluate(self_, component, grid, shift) ==
    [c \in Cells(grid) |->
        SumSeq[[t \in Terms(self_) |-> EvaluateTerm(self_, component, grid, shift, c, t)]]]

\* The arguments numpy's where() is given.  Python evaluates all three
\* before the call, so the quotient 1 / (grid_step * k) and the array built
\* from it are computed for every term, whatever k is.
BlockAverageArgs[k \in Numbers, x \in Numbers, phi \in Numbers, grid_step \in Numbers] ==
    LET x0 == Sub[x, Div[grid_step, Num(2)]]
        x1 == Add[x, Div[grid_step, Num(2)]]
    IN  [k        |-> k,
         cond     |-> IsZero(k),
         divisor  |-> Mul[grid_step, k],
         quotient |-> Div[One, Mul[grid_step, k]],
         if_true  |-> Sin[phi],
         if_false |-> Mul[Div[One, Mul[grid_step, k]],
                          Sub[Cos[Add[Mul[k, x0], phi]], Cos[Add[Mul[k, x1], phi]]]]]

\* A variant without the selection: the bare quotient.
np_where_BareDivision(args) == args.if_false

\* A variant with the two branches exchanged.
np_where_Inverted(args) == IF args.cond THEN args.if_false ELSE args.if_true

\* np.where(k == 0, if_true, if_false), element by element
np_where(args) == IF args.cond THEN args.if_true ELSE args.if_false

block_average_of_sin[k \in Numbers, x \in Numbers, phi \in Numbers, grid_step \in Numbers] ==
    np_where(BlockAverageArgs[k, x, phi, grid_step])

\* The arguments of the call of _block_average_of_sin for term t at cell c:
\* _block_average_of_sin(k_y, y, k_x * x + phase, grid.step) for the X
\* component, _block_average_of_sin(k_x, x, k_y * y + phase, grid.step) for Y.
WaveArgs(self_, component, grid, shift, c, t) ==
    LET mesh  == get_mesh(grid, shift)
        phase == self_.phase_shifts.data[t]
    IN  IF component = X
        THEN [k   |-> k_y(self_, grid, t), x |-> mesh.y[c],
              phi |-> Add[Mul[k_x(self_, grid, t), mesh.x[c]], phase]]
        ELSE [k   |-> k_x(self_, grid, t), x |-> mesh.x[c],
              phi |-> Add[Mul[k_y(self_, grid, t), mesh.y[c]], phase]]

\* waves[c, t]
Waves(self_, component, grid, shift, c, t) ==
    CHOOSE w \in {block_average_of_sin[a.k, a.x, a.phi, grid.step] :
                    a \in {WaveArgs(self_, component, grid, shift, c, t)}} : TRUE

\* (scale * self.amplitudes * waves)[c, t]
FaceAverageTerm(self_, component, grid, shift, c, t) ==
    Mul[Mul[Num(Scale(self_, component, t)), self_.amplitudes.data[t]],
        Waves(self_, component, grid, shift, c, t)]

face_average(self_, component, grid, shift) ==
    [c \in Cells(grid) |->
        SumSeq[[t \in Terms(self_) |-> FaceAverageTerm(self_, component, grid, shift, c, t)]]]

\* A variant in which the field moves with time: the mesh is shifted by t.
get_velocity_x_Advected(self_, t, grid, shift, fa) ==
    IF fa THEN face_average(self_, X, grid, <<shift[1] + t, shift[2]>>)
    ELSE evaluate(self_, X, grid, <<shift[1] + t, shift[2]>>)

\* del t: the time is dropped before anything is computed.
get_velocity_x(self_, t, grid, shift, fa) ==
    IF fa THEN face_average(self_, X, grid, shift) ELSE evaluate(self_, X, grid, shift)

get_velocity_y(self_, t, grid, shift, fa) ==
    IF fa THEN face_average(self_, Y, grid, shift) ELSE evaluate(self_, Y, grid, shift)

(***************************************************************************)
(* __init__: the shapes are compared before any attribute is stored.       *)
(***************************************************************************)
NoObject ==
    [x_wavenumbers |-> Unset, y_wavenumbers |-> Unset,
     amplitudes |-> Unset, phase_shifts |-> Unset]

\* A variant that leaves phase_shifts out of the comparison.
SameShapes_WithoutPhases(x_wavenumbers, y_wavenumbers, amplitudes, phase_shifts) ==
    /\ x_wavenumbers.shape = y_wavenumbers.shape
    /\ y_wavenumbers.shape = amplitudes.shape

\* x_wavenumbers.shape == y_wavenumbers.shape == amplitudes.shape == phase_shifts.shape
SameShapes(x_wavenumbers, y_wavenumbers, amplitudes, phase_shifts) ==
    /\ x_wavenumbers.shape = y_wavenumbers.shape
    /\ y_wavenumbers.shape = amplitudes.shape
    /\ amplitudes.shape = phase_shifts.shape

\* The outcome of ConstantVelocityField(...): the exception raised, if any,
\* and the attributes of the new object when the constructor is left.
ConstantVelocityField(x_wavenumbers, y_wavenumbers, amplitudes, phase_shifts) ==
    IF ~SameShapes(x_wavenumbers, y_wavenumbers, amplitudes, phase_shifts)
    THEN [raised |-> "ValueError", obj |-> NoObject]
    ELSE [raised |-> "none",
          obj |-> [x_wavenumbers |-> x_wavenumbers, y_wavenumbers |-> y_wavenumbers,
                   amplitudes |-> amplitudes, phase_shifts |-> phase_shifts]]

(***************************************************************************)
(* normalize                                                               *)
(***************************************************************************)
\* The default of test_grid_size.  The source's default is 256; the model takes
\* the largest size at which every angle on the test grid is a multiple of pi/2.
DefaultTestGridSize == 2

TestGrid(test_grid_size) ==
    LET length == Mul[Num(2), Pi]
        step   == Div[length, Num(test_grid_size)]
    IN  Grid(test_grid_size, test_grid_size, step)

\* np.sqrt(v_x ** 2 + v_y ** 2) at one cell
Speed[v_x \in Numbers, v_y \in Numbers] == Sqrt[Add[Mul[v_x, v_x], Mul[v_y, v_y]]]

\* A variant that measures the x component alone: np.sqrt(v_x ** 2).max()
MaxSpeedOn_XOnly(self_, test_grid) ==
    LET v_x == evaluate(self_, X, test_grid, <<0, 0>>)
        cs  == CellSeq(test_grid)
    IN  MaxSeq[[i \in 1 .. Len(cs) |-> Speed[v_x[cs[i]], Zero]]]

\* np.sqrt(v_x ** 2 + v_y ** 2).max() on the test grid
MaxSpeedOn(self_, test_grid) ==
    LET v_x == evaluate(self_, X, test_grid, <<0, 0>>)
        v_y == evaluate(self_, Y, test_grid, <<0, 0>>)
        cs  == CellSeq(test_grid)
    IN  MaxSeq[[i \in 1 .. Len(cs) |-> Speed[v_x[cs[i]], v_y[cs[i]]]]]

SampledMaxSpeed(self_, test_grid_size) ==
    CHOOSE v_max \in {MaxSpeedOn(self_, test_grid) : test_grid \in {TestGrid(test_grid_size)}} : TRUE

\* The object the call was made on as the call leaves it (self_), the
\* attributes of the returned object (ret), and whether the returned
\* reference is a new instance or self (ref).
Rescaled(self_, v_max) ==
    ConstantVelocityField(
        self_.x_wavenumbers, self_.y_wavenumbers,
        [shape |-> self_.amplitudes.shape,
         data  |-> [t \in Terms(self_) |-> Div[self_.amplitudes.data[t], v_max]]],
        self_.phase_shifts)

\* A variant that rescales the amplitudes of self in place and returns self.
normalize_InPlace(self_, test_grid_size) ==
    CHOOSE r \in {[self_ |-> Rescaled(self_, v_max).obj, ret |-> Rescaled(self_, v_max).obj,
                    ref |-> "self"] :
                    v_max \in {SampledMaxSpeed(self_, test_grid_size)}} : TRUE

normalize(self_, test_grid_size) ==
    CHOOSE r \in {[self_ |-> self_, ret |-> Rescaled(self_, v_max).obj, ref |-> "new"] :
                    v_max \in {SampledMaxSpeed(self_, test_grid_size)}} : TRUE

(***************************************************************************)
(* from_seed.  np.random.RandomState stands for a deterministic generator: *)
(* a linear congruential generator on RngStates whose samples are          *)
(* multiples of 1/4 in [0, 1).                                             *)
(***************************************************************************)
None == -1

RngStates == 0 .. 3

RngNext(s) == (5 * s + 3) % 4

RngSample(s) == Rat(s, 4)

\* A variant that takes numpy's process-wide generator: rnd_gen = np.random
NewRandomState_Global(seed, entropy) == np_random

\* RandomState(seed): seeded from seed, or from the system's entropy.
NewRandomState(seed, entropy) == IF seed = None THEN entropy ELSE seed % 4

RECURSIVE RngAdvance(_, _)
RngAdvance(s, n) == IF n = 0 THEN s ELSE RngAdvance(RngNext(s), n - 1)

\* rnd_gen.random_sample(size): the samples drawn and the generator's state after.
random_sample(s, size) ==
    [samples |-> [i \in 1 .. size |-> RngSample(RngAdvance(s, i))],
     state   |-> RngAdvance(s, size)]

\* base ** float(power_law), for an integer power_law
PowNat[base \in Numbers, e \in Nat] == IF e = 0 THEN One ELSE Mul[base, PowNat[base, e - 1]]

Pow(base, power_law) ==
    IF power_law = 0 THEN One
    ELSE IF power_law > 0 THEN PowNat[base, power_law]
    ELSE Div[One, PowNat[base, -power_law]]

\* np.arange(start, stop): start, ..., stop - 1
arange(start, stop) == [i \in 1 .. stop - start |-> start + i - 1]

\* A variant without the negative wavenumbers: np.arange(0, max_periods + 1)
Ks_NonNegative(max_periods_) == arange(0, max_periods_ + 1)

\* ks = np.arange(-max_periods, max_periods + 1)
Ks(max_periods_) == arange(-max_periods_, max_periods_ + 1)

\* The arrays from_seed passes to the constructor.
SeedArrays(max_periods_, power_law, rnd_gen) ==
    LET n  == Len(Ks(max_periods_))
        ks == Ks(max_periods_)
        kx == [i \in 1 .. n * n |-> ks[((i - 1) \div n) + 1]]
        ky == [i \in 1 .. n * n |-> ks[((i - 1) % n) + 1]]
        scale == [i \in 1 .. n * n |->
                    Pow(Add[Sqrt[Num(kx[i] * kx[i] + ky[i] * ky[i])], One], power_law)]
        draw1 == random_sample(rnd_gen, n * n)
        amplitudes == [i \in 1 .. n * n |-> Mul[scale[i], draw1.samples[i]]]
        draw2 == random_sample(draw1.state, n * n)
        phase_shifts == [i \in 1 .. n * n |-> Mul[Mul[draw2.samples[i], Pi], Num(2)]]
    IN  [k_x |-> Array1(kx), k_y |-> Array1(ky),
         amplitudes |-> Array1(amplitudes), phase_shifts |-> Array1(phase_shifts)]

from_seed(max_periods_, power_law, seed, normalize_, entropy) ==
    CHOOSE r \in
      {IF normalize_ THEN normalize(vfield, DefaultTestGridSize).ret ELSE vfield :
         vfield \in {ConstantVelocityField(a.k_x, a.k_y, a.amplitudes, a.phase_shifts).obj :
                       a \in {SeedArrays(max_periods_, power_law,
                                         NewRandomState(seed, entropy))}}} : TRUE

(***************************************************************************)
(* Inputs.                                                                 *)
(***************************************************************************)
Wavenumbers == -MaxWavenumber .. MaxWavenumber

Amplitudes == {Num(a) : a \in 0 .. MaxAmp}

\* Phase shifts: multiples of pi/2.
PhaseShifts == {Fin(q, 2, 1, 1) : q \in 0 .. MaxPhase}

Field(terms) ==
    [x_wavenumbers |-> Array1([t \in 1 .. Len(terms) |-> terms[t][1]]),
     y_wavenumbers |-> Array1([t \in 1 .. Len(terms) |-> terms[t][2]]),
     amplitudes    |-> Array1([t \in 1 .. Len(terms) |-> terms[t][3]]),
     phase_shifts  |-> Array1([t \in 1 .. Len(terms) |-> terms[t][4]])]

\* The wavenumber pairs whose amplitude and phase shift vary.
VariedPairs == {<<0, 0>>, <<1, 0>>, <<0, 1>>, <<1, 1>>}

\* Every wavenumber pair with amplitude 1 and no phase shift, and the varied
\* pairs with every amplitude and phase shift.
TermSet ==
    {<<x, y, One, Zero>> : x \in Wavenumbers, y \in Wavenumbers}
    \cup {<<w[1], w[2], a, p>> : w \in VariedPairs, a \in Amplitudes, p \in PhaseShifts}

\* Second terms of the two-term fields: the zero-wavenumber term and a
\* diagonal term.
Companions == {<<0, 0, One, Fin(1, 2, 1, 1)>>, <<1, 1, One, Zero>>}

Fields ==
    {Field(<<a>>) : a \in TermSet} \cup {Field(<<a, b>>) : a \in TermSet, b \in Companions}

GridSizes == {1, 2}

\* Every grid of step 1, and the square grid of length 2 pi.
Grids == {Grid(sx, sy, One) : sx \in GridSizes, sy \in GridSizes} \cup {Grid(2, 2, Pi)}

Shifts == {<<0, 0>>, <<1, 0>>, <<0, 1>>}

Times == 0 .. MaxTime

TestGridSizes == {1, 2}

Seeds == {None} \cup (0 .. MaxSeed)

\* The exponents of the power law: none, and the default.
PowerLaws == {0, -3}

\* The arguments of from_seed for which every amplitude scale
\* ((k_x ** 2 + k_y ** 2) ** 0.5 + 1) ** power_law is a number of the model.
SeedArgs ==
    {a \in [max_periods : 0 .. MaxSeedPeriods, power_law : PowerLaws, normalize : BOOLEAN] :
        a.power_law = 0 \/ a.max_periods = 0}

\* The fields from_seed gives without normalisation.
SeedFields ==
    {from_seed(a.max_periods, a.power_law, seed, FALSE, 0) :
        a \in SeedArgs, seed \in 0 .. MaxSeed}

\* Shapes of rank 0, 1 and 2.
Shapes ==
    {<<>>} \cup {<<n>> : n \in 1 .. MaxDim} \cup {<<n, m>> : n \in 1 .. MaxDim, m \in 1 .. MaxDim}

ArrayOf(shape, fill) == [shape |-> shape, data |-> [i \in 1 .. Product(shape) |-> fill]]

(***************************************************************************)
(* Calls and results.                                                      *)
(***************************************************************************)
NoCall == [op |-> "idle"]

NoRet == [op |-> "idle"]

NoPrev == [call |-> NoCall, ret |-> NoRet]

GetVelocityOps == {"get_velocity_x", "get_velocity_y"}

Idle == call.op = "idle"

Init ==
    /\ self \in Fields \cup SeedFields
    /\ call = NoCall
    /\ ret = NoRet
    /\ divisions = {}
    /\ prev = NoPrev
    /\ np_random = 0

Evaluate(component, grid, shift) ==
    /\ Idle
    /\ call' = [op |-> "evaluate", component |-> component, grid |-> grid, shift |-> shift]
    /\ ret' = evaluate(self, component, grid, shift)
    /\ divisions' = {}
    /\ UNCHANGED <<self, prev, np_random>>

\* Every element of the arrays the call of _block_average_of_sin computes,
\* with the term it belongs to.
Divisions(self_, component, grid, shift) ==
    UNION {UNION {{[term |-> t, k |-> b.k, phi |-> a.phi, divisor |-> b.divisor,
                    quotient |-> b.quotient, if_true |-> b.if_true,
                    if_false |-> b.if_false, waves |-> np_where(b)]
                     : b \in {BlockAverageArgs[a.k, a.x, a.phi, grid.step]}}
                  : a \in {WaveArgs(self_, component, grid, shift, c, t)}}
           : c \in Cells(grid), t \in Terms(self_)}

FaceAverage(component, grid, shift) ==
    /\ Idle
    /\ call' = [op |-> "face_average", component |-> component, grid |-> grid, shift |-> shift]
    /\ ret' = face_average(self, component, grid, shift)
    /\ divisions' = Divisions(self, component, grid, shift)
    /\ UNCHANGED <<self, prev, np_random>>

GetVelocityX(t, grid, shift, fa) ==
    /\ Idle
    /\ call' = [op |-> "get_velocity_x", t |-> t, component |-> X, grid |-> grid,
                shift |-> shift, face_average |-> fa]
    /\ ret' = get_velocity_x(self, t, grid, shift, fa)
    /\ divisions' = IF fa THEN Divisions(self, X, grid, shift) ELSE {}
    /\ UNCHANGED <<self, prev, np_random>>

GetVelocityY(t, grid, shift, fa) ==
    /\ Idle
    /\ call' = [op |-> "get_velocity_y", t |-> t, component |-> Y, grid |-> grid,
                shift |-> shift, face_average |-> fa]
    /\ ret' = get_velocity_y(self, t, grid, shift, fa)
    /\ divisions' = IF fa THEN Divisions(self, Y, grid, shift) ELSE {}
    /\ UNCHANGED <<self, prev, np_random>>

NumTerms ==
    /\ Idle
    /\ call' = [op |-> "num_terms"]
    /\ ret' = num_terms(self)
    /\ divisions' = {}
    /\ UNCHANGED <<self, prev, np_random>>

MaxPeriods ==
    /\ Idle
    /\ call' = [op |-> "max_periods"]
    /\ ret' = max_periods(self)
    /\ divisions' = {}
    /\ UNCHANGED <<self, prev, np_random>>

Normalize(test_grid_size) ==
    /\ Idle
    /\ call' = [op |-> "normalize", test_grid_size |-> test_grid_size]
    /\ \E r \in {normalize(self, test_grid_size)} :
           /\ self' = r.self_
           /\ ret' = [ref |-> r.ref, obj |-> r.ret]
    /\ divisions' = {}
    /\ UNCHANGED <<prev, np_random>>

\* A later time step of the solver: the same component is asked for again,
\* on the same grid, at a later time t.  prev keeps the earlier call and its
\* result.
NextTimeStep(t) ==
    /\ call.op \in GetVelocityOps
    /\ prev.call.op = "idle"
    /\ t > call.t
    /\ prev' = [call |-> call, ret |-> ret]
    /\ call' = [call EXCEPT !.t = t]
    /\ ret' = IF call.op = "get_velocity_x"
              THEN get_velocity_x(self, t, call.grid, call.shift, call.face_average)
              ELSE get_velocity_y(self, t, call.grid, call.shift, call.face_average)
    /\ divisions' = IF call.face_average
                    THEN Divisions(self, call.component, call.grid, call.shift)
                    ELSE {}
    /\ UNCHANGED <<self, np_random>>

\* The caller takes the result; the field is ready for the next call.
Return ==
    /\ ~Idle
    /\ call' = NoCall
    /\ ret' = NoRet
    /\ divisions' = {}
    /\ prev' = NoPrev
    /\ UNCHANGED <<self, np_random>>

Next ==
    \/ \E c \in VelocityComponent, g \in Grids, s \in Shifts : Evaluate(c, g, s)
    \/ \E c \in VelocityComponent, g \in Grids, s \in Shifts : FaceAverage(c, g, s)
    \/ \E t \in Times, g \in Grids, s \in Shifts, fa \in BOOLEAN : GetVelocityX(t, g, s, fa)
    \/ \E t \in Times, g \in Grids, s \in Shifts, fa \in BOOLEAN : GetVelocityY(t, g, s, fa)
    \/ NumTerms
    \/ MaxPeriods
    \/ \E n \in TestGridSizes : Normalize(n)
    \/ \E t \in Times : NextTimeStep(t)
    \/ Return

Spec == Init /\ [][Next]_vars

(***************************************************************************)
(* Construction: the constructor is called with arrays of every            *)
(* combination of shapes.                                                  *)
(***************************************************************************)
InitConstruct ==
    /\ self = NoObject
    /\ call = NoCall
    /\ ret = NoRet
    /\ divisions = {}
    /\ prev = NoPrev
    /\ np_random = 0

\* self is the object the constructor was entered with, as it leaves it.
Construct(sx, sy, sa, sp) ==
    /\ Idle
    /\ call' = [op |-> "__init__", x_wavenumbers |-> ArrayOf(sx, 1),
                y_wavenumbers |-> ArrayOf(sy, 0), amplitudes |-> ArrayOf(sa, One),
                phase_shifts |-> ArrayOf(sp, Zero)]
    /\ \E r \in {ConstantVelocityField(ArrayOf(sx, 1), ArrayOf(sy, 0),
                                       ArrayOf(sa, One), ArrayOf(sp, Zero))} :
           /\ self' = r.obj
           /\ ret' = r.raised
    /\ UNCHANGED <<divisions, prev, np_random>>

\* The caller drops the object (or handles the exception).
Discard ==
    /\ ~Idle
    /\ self' = NoObject
    /\ call' = NoCall
    /\ ret' = NoRet
    /\ UNCHANGED <<divisions, prev, np_random>>

NextConstruct ==
    \/ \E sx \in Shapes, sy \in Shapes, sa \in Shapes, sp \in Shapes : Construct(sx, sy, sa, sp)
    \/ Discard

SpecConstruct == InitConstruct /\ [][NextConstruct]_vars

(***************************************************************************)
(* from_seed, called any number of times, while the rest of the process    *)
(* draws from numpy's process-wide generator.                              *)
(***************************************************************************)
InitSeed ==
    /\ self = NoObject
    /\ call = NoCall
    /\ ret = NoRet
    /\ divisions = {}
    /\ prev = NoPrev
    /\ np_random = 0

FromSeed(a, seed, entropy) ==
    /\ Idle
    /\ call' = [op |-> "from_seed", max_periods |-> a.max_periods,
                power_law |-> a.power_law, seed |-> seed, normalize |-> a.normalize]
    /\ ret' = from_seed(a.max_periods, a.power_law, seed, a.normalize, entropy)
    /\ UNCHANGED <<self, divisions, prev, np_random>>

\* The caller takes the field.  prev keeps any one call that was given a
\* seed, and the field it returned, to compare later calls with.
TakeField ==
    /\ ~Idle
    /\ call' = NoCall
    /\ ret' = NoRet
    /\ \/ prev' = prev
       \/ /\ call.seed # None
          /\ prev' = [call |-> call, ret |-> ret]
    /\ UNCHANGED <<self, divisions, np_random>>

\* Other code of the process draws a sample from np.random.
GlobalSample ==
    /\ np_random' = RngNext(np_random)
    /\ UNCHANGED <<self, call, ret, divisions, prev>>

NextSeed ==
    \/ \E a \in SeedArgs, seed \in Seeds :
         \E entropy \in (IF seed = None THEN RngStates ELSE {0}) : FromSeed(a, seed, entropy)
    \/ TakeField
    \/ GlobalSample

SpecSeed == InitSeed /\ [][NextSeed]_vars

(***************************************************************************)
(* Properties.                                                             *)
(***************************************************************************)
PointOps == {"evaluate", "face_average"} \cup GetVelocityOps

\* The call in progress averages over cell faces.
Averaged ==
    \/ call.op = "face_average"
    \/ call.op \in GetVelocityOps /\ call.face_average

\* C1: the field is divergence-free for every term and for any grid: on the
\* grid of every call that computes a velocity, every term's contribution
\* k_x * (y_wavenumber * amplitude) + k_y * (-x_wavenumber * amplitude) to
\* d(v_x)/dx + d(v_y)/dy is zero, with k_x and k_y as evaluate computes them.
C1_DivergenceFree ==
    call.op \in PointOps =>
        \A t \in Terms(self) :
            IsZero(Add[Mul[k_x(self, call.grid, t),
                           Mul[Num(Scale(self, X, t)), self.amplitudes.data[t]]],
                       Mul[k_y(self, call.grid, t),
                           Mul[Num(Scale(self, Y, t)), self.amplitudes.data[t]]]])

\* C2: the constructor succeeds exactly when the four arrays have the same
\* shape; otherwise it raises ValueError and the object it was entered with
\* has no attribute stored; when it succeeds the four arrays are stored.
C2_ShapeValidation ==
    call.op = "__init__" =>
        LET shapes == {call.x_wavenumbers.shape, call.y_wavenumbers.shape,
                       call.amplitudes.shape, call.phase_shifts.shape}
        IN  /\ ret \in {"none", "ValueError"}
            /\ (ret = "none") <=> (Cardinality(shapes) = 1)
            /\ ret = "ValueError" => self = NoObject
            /\ ret = "none" =>
                  self = [x_wavenumbers |-> call.x_wavenumbers,
                          y_wavenumbers |-> call.y_wavenumbers,
                          amplitudes    |-> call.amplitudes,
                          phase_shifts  |-> call.phase_shifts]

\* A constructor call that failed although only phase_shifts differs in shape.
C2_Witness ==
    /\ call.op = "__init__"
    /\ ret = "ValueError"
    /\ self = NoObject
    /\ call.x_wavenumbers.shape = call.y_wavenumbers.shape
    /\ call.y_wavenumbers.shape = call.amplitudes.shape
    /\ call.amplitudes.shape # call.phase_shifts.shape

\* C3: time invariance: get_velocity_x (and get_velocity_y) called again on
\* the same field with the same grid, shift and face_average flag but another
\* time t returns the same result as the earlier call.
C3_TimeInvariance ==
    (/\ prev.call.op \in GetVelocityOps
     /\ call.op = prev.call.op
     /\ call.grid = prev.call.grid
     /\ call.shift = prev.call.shift
     /\ call.face_average = prev.call.face_average) => ret = prev.ret

\* Two calls of get_velocity_x at different times, on a field that moves
\* where it is not constant: the result is not zero.
C3_Witness ==
    /\ prev.call.op = "get_velocity_x"
    /\ call.op = "get_velocity_x"
    /\ prev.call.t # call.t
    /\ call.grid = prev.call.grid
    /\ call.shift = prev.call.shift
    /\ call.face_average = prev.call.face_average
    /\ \E c \in DOMAIN ret : ~IsZero(ret[c])

C5_FullLattice ==
    call.op = "from_seed" =>
        LET m       == call.max_periods
            n       == (2 * m + 1) * (2 * m + 1)
            pair(t) == <<ret.x_wavenumbers.data[t], ret.y_wavenumbers.data[t]>>
        IN  /\ num_terms(ret) = n
            /\ Len(ret.x_wavenumbers.data) = n
            /\ Len(ret.y_wavenumbers.data) = n
            /\ Len(ret.amplitudes.data) = n
            /\ Len(ret.phase_shifts.data) = n
            /\ {pair(t) : t \in 1 .. n} = (-m .. m) \X (-m .. m)
            /\ \A t1 \in 1 .. n, t2 \in 1 .. n : pair(t1) = pair(t2) => t1 = t2
            /\ \E t \in 1 .. n : pair(t) = <<0, 0>>

\* A call with the largest max_periods, returning negative and positive pairs.
C5_Witness ==
    /\ call.op = "from_seed"
    /\ call.max_periods = MaxSeedPeriods
    /\ num_terms(ret) = (2 * MaxSeedPeriods + 1) * (2 * MaxSeedPeriods + 1)
    /\ \E t \in Terms(ret) :
          /\ ret.x_wavenumbers.data[t] = -MaxSeedPeriods
          /\ ret.y_wavenumbers.data[t] = MaxSeedPeriods

C7_ZeroWavenumberFinite ==
    call.op \in PointOps =>
        /\ (\A t \in Terms(self) : /\ IsFinite(self.amplitudes.data[t])
                                   /\ IsFinite(self.phase_shifts.data[t]))
              => \A c \in DOMAIN ret : IsFinite(ret[c])
        /\ \A e \in divisions : IsZero(e.k) => e.waves = Sin[e.phi] /\ IsFinite(e.waves)

\* face_average on a field with a term of wavenumbers (0, 0) beside a term
\* that gives a result other than zero.
C7_Witness ==
    /\ call.op = "face_average"
    /\ \E t \in Terms(self) : /\ self.x_wavenumbers.data[t] = 0
                              /\ self.y_wavenumbers.data[t] = 0
                              /\ ~IsZero(self.amplitudes.data[t])
    /\ \E e \in divisions : IsZero(e.k) /\ ~IsZero(e.waves)
    /\ \E c \in DOMAIN ret : ret[c].k = "fin" /\ ~IsZero(ret[c])

\* C8 as stated: during face_average the quotient 1 / (step * k) is not
\* evaluated for any term with k = 0.
C8_NoQuotientAtZero ==
    \A e \in divisions : ~IsZero(e.k)

\* C8, amended: during face_average the quotient 1 / (step * k) is evaluated
\* for every term; for a term with k = 0 it is +inf and the array built from
\* it holds NaN, and the selection takes sin(phase) in its place, so that
\* neither reaches the waves.
C8_QuotientDiscardedAtZero ==
    /\ Averaged => \A t \in Terms(self) : \E e \in divisions : e.term = t
    /\ \A e \in divisions :
          IsZero(e.k) => /\ IsZero(e.divisor)
                         /\ e.quotient = Inf(1)
                         /\ e.if_false = NaN
                         /\ e.waves = e.if_true
                         /\ e.waves.k = "fin"

\* face_average has divided by zero for a term and selected a sine of 1 or -1.
C8_Witness ==
    /\ Averaged
    /\ \E e \in divisions : /\ IsZero(e.k)
                            /\ e.quotient.k = "inf"
                            /\ e.if_false.k = "nan"
                            /\ ~IsZero(e.waves)

\* C9: immutability: no call changes the x_wavenumbers, y_wavenumbers,
\* amplitudes or phase_shifts of the field; normalize returns a new instance
\* with the same wavenumbers and phase shifts and with amplitudes of the same
\* shape, rescaled by one divisor.
C9_Immutable ==
    [][/\ self' = self
       /\ call'.op = "normalize" =>
             /\ ret'.ref = "new"
             /\ ret'.obj.x_wavenumbers = self.x_wavenumbers
             /\ ret'.obj.y_wavenumbers = self.y_wavenumbers
             /\ ret'.obj.phase_shifts = self.phase_shifts
             /\ ret'.obj.amplitudes.shape = self.amplitudes.shape
             /\ \E v \in {Speed[evaluate(self, X, TestGrid(call'.test_grid_size), <<0, 0>>)[c],
                                evaluate(self, Y, TestGrid(call'.test_grid_size), <<0, 0>>)[c]]
                            : c \in Cells(TestGrid(call'.test_grid_size))} :
                   ret'.obj.amplitudes.data =
                       [t \in Terms(self) |-> Div[self.amplitudes.data[t], v]]]_vars

\* normalize has returned a field whose amplitudes differ from those of the
\* field it was called on.
C9_Witness ==
    /\ call.op = "normalize"
    /\ ret.ref = "new"
    /\ ret.obj.amplitudes # self.amplitudes
    /\ ret.obj.x_wavenumbers = self.x_wavenumbers
    /\ \E t \in Terms(self) : ~IsZero(self.amplitudes.data[t])

\* C10: a term with finite amplitude contributes exactly zero to the X
\* component when its y_wavenumber is 0 and to the Y component when its
\* x_wavenumber is 0, in evaluate and in face_average; a field all of whose
\* terms have y_wavenumber 0 gives an all-zero get_velocity_x; and in
\* face_average the value of the k = 0 branch is multiplied by a scale of 0.
C10_ZeroScale ==
    call.op \in PointOps =>
        /\ \A t \in Terms(self) :
              (/\ IsFinite(self.amplitudes.data[t])
               /\ (IF call.component = X THEN self.y_wavenumbers.data[t]
                                         ELSE self.x_wavenumbers.data[t]) = 0)
              => \A c \in Cells(call.grid) :
                    IsZero(IF Averaged
                           THEN FaceAverageTerm(self, call.component, call.grid, call.shift, c, t)
                           ELSE EvaluateTerm(self, call.component, call.grid, call.shift, c, t))
        /\ (/\ call.op = "get_velocity_x"
            /\ \A t \in Terms(self) : self.y_wavenumbers.data[t] = 0)
              => \A c \in DOMAIN ret : IsZero(ret[c])
        /\ \A e \in divisions :
              IsZero(e.k) =>
                  Scale(self, call.component, e.term) = 0

\* get_velocity_x averaged over faces on a field whose terms all have
\* y_wavenumber 0, one of them with a sine other than zero.
C10_Witness ==
    /\ call.op = "get_velocity_x"
    /\ call.face_average
    /\ \A t \in Terms(self) : self.y_wavenumbers.data[t] = 0
    /\ \E t \in Terms(self) : /\ self.x_wavenumbers.data[t] # 0
                              /\ ~IsZero(self.amplitudes.data[t])
    /\ \E e \in divisions : IsZero(e.k) /\ ~IsZero(e.waves)
    /\ \A c \in DOMAIN ret : IsZero(ret[c])

=============================================================================
